---- MODULE Spec2Model ----
(***************************************************************************)
(* SuperTetris python_ai: the agent registry (AISystem, ai_system.py) over *)
(* the agent classes of models.py and the constants of constants.py.       *)
(*                                                                         *)
(* Strings whose characters the code inspects (agent names, model paths)   *)
(* are sequences of one-character strings, so that concatenation and the   *)
(* "in" substring test are computed.  Floats that the code only copies or  *)
(* compares are kept as integers in thousandths (epsilon) or tenths        *)
(* (heuristic weights); the evaluation score is a fraction num/den.        *)
(***************************************************************************)
EXTENDS Integers, Sequences, FiniteSets, TLC

VARIABLES players, training_data, modelFiles, dataFiles, last

vars == <<players, training_data, modelFiles, dataFiles, last>>

----------------------------------------------------------------------------
(* Bounds of the model *)

\* longest training-data file found on disk
MaxData == 2
\* longest labeled test set handed to evaluate_player
MaxTest == 1
\* largest epochs argument of train_player
MaxEpochs == 1
\* largest batch_size argument of train_player
MaxBatch == 2
\* gradient steps one model can accumulate before training is no longer explored
MaxGradSteps == 2

----------------------------------------------------------------------------
(* constants.py *)

OUTPUT_SIZE == 7

\* EPSILON_END = 0.1, in thousandths
EPSILON_END == 100
MEMORY_CAPACITY == 10000

ACTION_MOVE_LEFT == 1
ACTION_MOVE_RIGHT == 2
ACTION_ROTATE_CW == 3
ACTION_ROTATE_CCW == 4
ACTION_SOFT_DROP == 5
ACTION_HARD_DROP == 6
ACTION_CAST_SPELL == 7

ActionCodes ==
    {ACTION_MOVE_LEFT, ACTION_MOVE_RIGHT, ACTION_ROTATE_CW, ACTION_ROTATE_CCW,
     ACTION_SOFT_DROP, ACTION_HARD_DROP, ACTION_CAST_SPELL}

MODEL_SAVE_PATH == <<"m","o","d","e","l","s","/">>

----------------------------------------------------------------------------
(* Strings as character sequences *)

\* Python's  sub in s
Contains(sub, s) ==
    \E i \in 1..(Len(s) - Len(sub) + 1) : SubSeq(s, i, i + Len(sub) - 1) = sub

\* os.path.join(a, b): an absolute b discards a; a already ends with a separator
PathJoin(a, b) ==
    IF Len(b) > 0 /\ b[1] = "/" THEN b
    ELSE IF Len(a) = 0 \/ a[Len(a)] = "/" THEN a \o b
    ELSE a \o <<"/">> \o b

\* the None object used as a name (create_player's name left out), kept apart
\* from every string
NoneName == <<"#None">>

\* f"{player_name}": str() of the name
FormatName(name) == IF name = NoneName THEN <<"N","o","n","e">> ELSE name

\* f"{player_name}.pt" joined to the model storage root
DefaultModelPath(player_name) ==
    PathJoin(MODEL_SAVE_PATH, FormatName(player_name) \o <<".","p","t">>)

Str_heuristic == <<"h","e","u","r","i","s","t","i","c">>
Str_neural_net == <<"n","e","u","r","a","l","_","n","e","t">>
Str_rl == <<"r","l">>
Str_bob == <<"b","o","b">>

----------------------------------------------------------------------------
(* Inputs *)

\* agent names: the name left out (None) and a string; the default model file
\* of the second exists and has "rl" in its path, that of the first does not exist
Names == {NoneName, Str_rl}

PlayerTypes == {"heuristic", "neural_net", "rl", "bogus"}

Difficulties == {1, 4}

States == {"s0"}

Rewards == {-1, 2}

\* the path argument left out
NoPath == <<>>

ModelPathArgs ==
    {NoPath,
     MODEL_SAVE_PATH \o Str_heuristic \o <<".","p","t">>,
     Str_neural_net \o <<".","p","t">>,
     MODEL_SAVE_PATH \o Str_bob \o <<".","p","t">>}

\* training-data paths a caller names: a file that exists and one that does not
SeedDataPath == "training_data/seed.json"
MissingDataPath == "training_data/missing.json"
DataPaths == {SeedDataPath, MissingDataPath}

\* a file that does not exist; the content c of an existing file is <<c>>
NoFile == <<>>

\* a training-data document: an array of [state_features, action_code, reward]
Dataset(n) == [i \in 1..n |-> <<"features", 1 + (i % 7), i>>]

\* model files present on disk when the process starts
InitialModelFiles ==
    {DefaultModelPath(Str_rl),
     MODEL_SAVE_PATH \o Str_heuristic \o <<".","p","t">>,
     Str_neural_net \o <<".","p","t">>,
     MODEL_SAVE_PATH \o Str_bob \o <<".","p","t">>}

----------------------------------------------------------------------------
(* models.py: the agent classes *)

\* a weight table whose HARD branch is missing, so that tier 3 gets the last row
GetWeightsForDifficulty_NoHard(difficulty) ==
    IF difficulty = 1 THEN
        [holes |-> 3, bumpiness |-> 2, height |-> 3, lines_cleared |-> 8,
         tower_stability |-> 4, risk_taking |-> 2]
    ELSE IF difficulty = 2 THEN
        [holes |-> 5, bumpiness |-> 4, height |-> 5, lines_cleared |-> 10,
         tower_stability |-> 6, risk_taking |-> 4]
    ELSE
        [holes |-> 9, bumpiness |-> 8, height |-> 9, lines_cleared |-> 15,
         tower_stability |-> 10, risk_taking |-> 8]

\* HeuristicAIPlayer._get_weights_for_difficulty, weights in tenths
GetWeightsForDifficulty(difficulty) ==
    IF difficulty = 1 THEN
        [holes |-> 3, bumpiness |-> 2, height |-> 3, lines_cleared |-> 8,
         tower_stability |-> 4, risk_taking |-> 2]
    ELSE IF difficulty = 2 THEN
        [holes |-> 5, bumpiness |-> 4, height |-> 5, lines_cleared |-> 10,
         tower_stability |-> 6, risk_taking |-> 4]
    ELSE IF difficulty = 3 THEN
        [holes |-> 7, bumpiness |-> 6, height |-> 7, lines_cleared |-> 12,
         tower_stability |-> 8, risk_taking |-> 6]
    ELSE
        [holes |-> 9, bumpiness |-> 8, height |-> 9, lines_cleared |-> 15,
         tower_stability |-> 10, risk_taking |-> 8]

\* an epsilon table with the values of MEDIUM and HARD exchanged
GetEpsilonForDifficulty_Swapped(difficulty) ==
    IF difficulty = 1 THEN 500
    ELSE IF difficulty = 2 THEN 100
    ELSE IF difficulty = 3 THEN 300
    ELSE 50

\* NeuralNetAIPlayer._get_epsilon_for_difficulty, in thousandths
GetEpsilonForDifficulty(difficulty) ==
    IF difficulty = 1 THEN 500
    ELSE IF difficulty = 2 THEN 300
    ELSE IF difficulty = 3 THEN 100
    ELSE 50

\* _create_model: a TetrisNet with freshly drawn random parameters.  draw names
\* the random initialisation (the k-th network built for object id), steps the
\* number of gradient steps applied to it since.
CreateModel(id, k) == [draw |-> <<id, k>>, steps |-> 0]

\* HeuristicAIPlayer.__init__
HeuristicAIPlayer(id, difficulty, name) ==
    [cls |-> "HeuristicAIPlayer", id |-> id, difficulty |-> difficulty, name |-> name,
     decision_weights |-> GetWeightsForDifficulty(difficulty),
     last_decision_time |-> 0]

\* NeuralNetAIPlayer.__init__
NeuralNetAIPlayer(id, difficulty, name) ==
    [cls |-> "NeuralNetAIPlayer", id |-> id, difficulty |-> difficulty, name |-> name,
     model |-> CreateModel(id, 1),
     epsilon |-> GetEpsilonForDifficulty(difficulty),
     memory |-> <<>>]

\* ReinforcementLearningAIPlayer.__init__: epsilon = 1.0, epsilon_decay = 0.995
ReinforcementLearningAIPlayer(id, difficulty, name) ==
    [cls |-> "ReinforcementLearningAIPlayer", id |-> id, difficulty |-> difficulty,
     name |-> name,
     model |-> CreateModel(id, 1),
     target_model |-> CreateModel(id, 2),
     epsilon |-> 1000,
     epsilon_decay |-> 995,
     memory |-> <<>>,
     steps |-> 0]

\* AIPlayer.get_action: no subclass overrides it
AIPlayer_get_action(player, state) ==
    [exc |-> "NotImplementedError", val |-> <<>>, player |-> player]

\* AIPlayer.update: no subclass overrides it
AIPlayer_update(player, state, action, reward, next_state) ==
    [exc |-> "NotImplementedError", player |-> player]

\* AIPlayer.save: no subclass overrides it
AIPlayer_save(player, path, files) ==
    [exc |-> "NotImplementedError", files |-> files]

\* a load that reads the file into the agent without looking at its kind
AIPlayer_load_Unchecked(player, path, files) ==
    [exc |-> "None", player |-> player]

\* AIPlayer.load: no subclass overrides it
AIPlayer_load(player, path, files) ==
    [exc |-> "NotImplementedError", player |-> player]

----------------------------------------------------------------------------
(* ai_system.py: AISystem *)

\* Python's None as a return value; a returned value v is <<v>>
None == <<>>

\* the identity of a newly allocated object: distinct from every live agent
FreshId(ps) ==
    CHOOSE i \in 1..(Cardinality(Names) + 1) :
        /\ \A n \in DOMAIN ps : ps[n].id # i
        /\ \A j \in 1..(i - 1) : \E n \in DOMAIN ps : ps[n].id = j

\* dict assignment  self.players[key] = player
DictSet(ps, key, player) ==
    [n \in (DOMAIN ps) \cup {key} |-> IF n = key THEN player ELSE ps[n]]

\* self.players.clear() in the place of the del: every entry goes
DictDel_Clear(ps, key) == [n \in {} |-> ps[n]]

\* del self.players[key]
DictDel(ps, key) == [n \in (DOMAIN ps) \ {key} |-> ps[n]]

\* AISystem.get_player: self.players.get(name)
get_player_in(ps, name) == IF name \in DOMAIN ps THEN <<ps[name]>> ELSE None

\* "if not player": the lookup found nothing
NotFound(found) == found = None

\* the outcome of a call, as its caller sees it: the method and its name and
\* path arguments, the exception class and message it raised ("None" when it
\* returned), and the value it returned
Returned(op, name, path, ret) ==
    [op |-> op, name |-> name, path |-> path, exc |-> "None", msg |-> "", ret |-> ret]

Raised(op, name, path, exc, msg) ==
    [op |-> op, name |-> name, path |-> path, exc |-> exc, msg |-> msg, ret |-> None]

\* a lookup by self.players[player_name] instead, which raises KeyError
PlayerNotFound_KeyError(op, name, path) ==
    Raised(op, name, path, "KeyError", "")

\* raise ValueError(f"Player not found: {player_name}")
PlayerNotFound(op, name, path) ==
    Raised(op, name, path, "ValueError", "Player not found")

\* the dict with no entry
EmptyDict == [n \in {} |-> None]

\* AISystem.__init__ (the directories it makes are not modelled; the files
\* already in them are those of the environment, and no modelled call writes
\* one: save_training_data, which no property here involves, is left out)
Init ==
    /\ players = EmptyDict
    /\ training_data = <<>>
    /\ modelFiles = InitialModelFiles
    /\ dataFiles = [p \in DataPaths |->
                        IF p = SeedDataPath THEN <<Dataset(MaxData)>> ELSE NoFile]
    /\ last = Returned("__init__", NoneName, NoPath, None)

\* a dispatch whose last branch is a default class instead of the raise
PlayerClassFor_Fallback(player_type) ==
    IF player_type = "neural_net" THEN "NeuralNetAIPlayer"
    ELSE IF player_type = "rl" THEN "ReinforcementLearningAIPlayer"
    ELSE "HeuristicAIPlayer"

\* AISystem.create_player: the class chosen for player_type, "" for none
PlayerClassFor(player_type) ==
    IF player_type = "heuristic" THEN "HeuristicAIPlayer"
    ELSE IF player_type = "neural_net" THEN "NeuralNetAIPlayer"
    ELSE IF player_type = "rl" THEN "ReinforcementLearningAIPlayer"
    ELSE ""

\* the constructor call cls(difficulty, name)
Construct(cls, id, difficulty, name) ==
    IF cls = "HeuristicAIPlayer" THEN HeuristicAIPlayer(id, difficulty, name)
    ELSE IF cls = "NeuralNetAIPlayer" THEN NeuralNetAIPlayer(id, difficulty, name)
    ELSE ReinforcementLearningAIPlayer(id, difficulty, name)

\* a key that replaces a missing name by the base class's default name
RegistryKey_DefaultName(player) ==
    IF player.name = NoneName THEN <<"A","I">> ELSE player.name

\* the key create_player stores the agent under: player.name
RegistryKey(player) == player.name

create_player(player_type, difficulty, name) ==
    LET cls == PlayerClassFor(player_type) IN
    /\ IF cls = "" THEN
          /\ last' = Raised("create_player", name, NoPath, "ValueError", "Unknown player type")
          /\ UNCHANGED players
       ELSE
          LET player == Construct(cls, FreshId(players), difficulty, name) IN
          /\ players' = DictSet(players, RegistryKey(player), player)
          /\ last' = Returned("create_player", name, NoPath, <<player>>)
    /\ UNCHANGED <<training_data, modelFiles, dataFiles>>

get_player(name) ==
    /\ last' = Returned("get_player", name, NoPath, get_player_in(players, name))
    /\ UNCHANGED <<players, training_data, modelFiles, dataFiles>>

remove_player(name) ==
    /\ players' = IF name \in DOMAIN players THEN DictDel(players, name) ELSE players
    /\ last' = Returned("remove_player", name, NoPath, None)
    /\ UNCHANGED <<training_data, modelFiles, dataFiles>>

get_action(player_name, state) ==
    LET found == get_player_in(players, player_name) IN
    /\ IF NotFound(found) THEN
          /\ last' = PlayerNotFound("get_action", player_name, NoPath)
          /\ UNCHANGED players
       ELSE
          LET r == AIPlayer_get_action(found[1], state) IN
          /\ players' = [players EXCEPT ![player_name] = r.player]
          /\ last' = IF r.exc = "None"
                     THEN Returned("get_action", player_name, NoPath, r.val)
                     ELSE Raised("get_action", player_name, NoPath, r.exc, "")
    /\ UNCHANGED <<training_data, modelFiles, dataFiles>>

update(player_name, state, action, reward, next_state) ==
    LET found == get_player_in(players, player_name) IN
    /\ IF NotFound(found) THEN
          /\ last' = PlayerNotFound("update", player_name, NoPath)
          /\ UNCHANGED players
       ELSE
          LET r == AIPlayer_update(found[1], state, action, reward, next_state) IN
          /\ players' = [players EXCEPT ![player_name] = r.player]
          /\ last' = IF r.exc = "None"
                     THEN Returned("update", player_name, NoPath, None)
                     ELSE Raised("update", player_name, NoPath, r.exc, "")
    /\ UNCHANGED <<training_data, modelFiles, dataFiles>>

save_player(player_name, path) ==
    LET found == get_player_in(players, player_name) IN
    /\ IF NotFound(found) THEN
          /\ last' = PlayerNotFound("save_player", player_name, path)
          /\ UNCHANGED modelFiles
       ELSE
          LET p == IF path = NoPath THEN DefaultModelPath(player_name) ELSE path
              r == AIPlayer_save(found[1], p, modelFiles)
          IN
          /\ modelFiles' = r.files
          /\ last' = IF r.exc = "None"
                     THEN Returned("save_player", player_name, path, None)
                     ELSE Raised("save_player", player_name, path, r.exc, "")
    /\ UNCHANGED <<players, training_data, dataFiles>>

\* load_player's "Determine player type from file name", "" for none
PlayerClassFromPath(path) ==
    IF Contains(Str_heuristic, path) THEN "HeuristicAIPlayer"
    ELSE IF Contains(Str_neural_net, path) THEN "NeuralNetAIPlayer"
    ELSE IF Contains(Str_rl, path) THEN "ReinforcementLearningAIPlayer"
    ELSE ""

load_player(player_name, path) ==
    LET p == IF path = NoPath THEN DefaultModelPath(player_name) ELSE path
        cls == PlayerClassFromPath(p)
    IN
    /\ IF p \notin modelFiles THEN
          /\ last' = Raised("load_player", player_name, path, "FileNotFoundError",
                            "Model file not found")
          /\ UNCHANGED players
       ELSE IF cls = "" THEN
          /\ last' = Raised("load_player", player_name, path, "ValueError",
                            "Could not determine player type from path")
          /\ UNCHANGED players
       ELSE
          LET r == AIPlayer_load(Construct(cls, FreshId(players), 1, player_name),
                                 p, modelFiles)
          IN
          IF r.exc = "None" THEN
              /\ players' = DictSet(players, player_name, r.player)
              /\ last' = Returned("load_player", player_name, path, None)
          ELSE
              /\ last' = Raised("load_player", player_name, path, r.exc, "")
              /\ UNCHANGED players
    /\ UNCHANGED <<training_data, modelFiles, dataFiles>>

load_training_data(path) ==
    /\ IF dataFiles[path] = NoFile THEN
          /\ last' = Raised("load_training_data", NoneName, NoPath, "FileNotFoundError", "")
          /\ UNCHANGED training_data
       ELSE
          /\ training_data' = dataFiles[path][1]
          /\ last' = Returned("load_training_data", NoneName, NoPath, None)
    /\ UNCHANGED <<players, modelFiles, dataFiles>>

\* isinstance(player, (NeuralNetAIPlayer, ReinforcementLearningAIPlayer))
SupportsTraining(player) ==
    player.cls \in {"NeuralNetAIPlayer", "ReinforcementLearningAIPlayer"}

\* the check of the training data left out
NoTrainingData_Unchecked(data) == FALSE

\* "if not self.training_data"
NoTrainingData(data) == data = <<>>

\* len(dataloader): the mini-batches of one epoch
NumBatches(n, batch_size) == (n + batch_size - 1) \div batch_size

\* the size of the k-th mini-batch of an epoch over n samples
BatchSize(n, batch_size, k) ==
    IF k * batch_size <= n THEN batch_size ELSE n - (k - 1) * batch_size

\* criterion(predictions, batch_rewards): predictions have shape (B, 7) and the
\* rewards shape (B), which MSELoss can broadcast only when B is 1 or 7
LossComputable(b) == b = 1 \/ b = OUTPUT_SIZE

\* the first mini-batch of an epoch whose loss raises, 0 when none does
FirstBadBatch(n, batch_size) ==
    LET bad == {k \in 1..NumBatches(n, batch_size) :
                    ~LossComputable(BatchSize(n, batch_size, k))}
    IN IF bad = {} THEN 0 ELSE CHOOSE k \in bad : \A j \in bad : k <= j

\* the training loop: the gradient steps optimizer.step() applies to
\* player.model, and whether the loop ends by an exception
TrainingLoop(n, epochs, batch_size) ==
    LET bad == FirstBadBatch(n, batch_size) IN
    IF epochs = 0 THEN [exc |-> "None", applied |-> 0]
    ELSE IF bad # 0 THEN [exc |-> "RuntimeError", applied |-> bad - 1]
    ELSE [exc |-> "None", applied |-> epochs * NumBatches(n, batch_size)]

\* an optimizer built over the parameters of both networks of the agent
ApplyGradientSteps_BothModels(player, k) ==
    IF "target_model" \in DOMAIN player
    THEN [player EXCEPT !.model.steps = @ + k, !.target_model.steps = @ + k]
    ELSE [player EXCEPT !.model.steps = @ + k]

\* k times optimizer.step() of optim.Adam(player.model.parameters())
ApplyGradientSteps(player, k) == [player EXCEPT !.model.steps = @ + k]

train_player(player_name, epochs, batch_size) ==
    LET found == get_player_in(players, player_name) IN
    /\ IF NotFound(found) THEN
          /\ last' = PlayerNotFound("train_player", player_name, NoPath)
          /\ UNCHANGED players
       ELSE IF ~SupportsTraining(found[1]) THEN
          /\ last' = Raised("train_player", player_name, NoPath, "ValueError",
                            "does not support training")
          /\ UNCHANGED players
       ELSE IF NoTrainingData(training_data) THEN
          /\ last' = Raised("train_player", player_name, NoPath, "ValueError",
                            "No training data available")
          /\ UNCHANGED players
       ELSE
          LET r == TrainingLoop(Len(training_data), epochs, batch_size)
              player == found[1]
          IN
          /\ player.model.steps + r.applied <= MaxGradSteps
          /\ players' = [players EXCEPT ![player_name] = ApplyGradientSteps(@, r.applied)]
          /\ last' = IF r.exc = "None"
                     THEN Returned("train_player", player_name, NoPath, None)
                     ELSE Raised("train_player", player_name, NoPath, r.exc, "")
    /\ UNCHANGED <<training_data, modelFiles, dataFiles>>

\* the for loop of evaluate_player from entry i on, total_reward so far
RECURSIVE EvaluateLoop(_, _, _, _)
EvaluateLoop(player, test_data, i, total_reward) ==
    IF i > Len(test_data) THEN
        [exc |-> "None", total_reward |-> total_reward, player |-> player]
    ELSE
        LET r == AIPlayer_get_action(player, test_data[i].state) IN
        IF r.exc # "None" THEN
            [exc |-> r.exc, total_reward |-> total_reward, player |-> r.player]
        ELSE
            EvaluateLoop(r.player, test_data, i + 1,
                         IF r.val[1].action_type = test_data[i].action.action_type
                         THEN total_reward + test_data[i].reward
                         ELSE total_reward)

\* total_reward / len(test_data) with no guard for the empty test set
EvaluateResult_Unguarded(total_reward, n) ==
    IF n # 0 THEN [exc |-> "None", ret |-> <<[num |-> total_reward, den |-> n]>>]
    ELSE [exc |-> "ZeroDivisionError", ret |-> None]

\* total_reward / len(test_data) if test_data else 0.0, as a fraction
EvaluateResult(total_reward, n) ==
    IF n # 0 THEN [exc |-> "None", ret |-> <<[num |-> total_reward, den |-> n]>>]
    ELSE [exc |-> "None", ret |-> <<[num |-> 0, den |-> 1]>>]

evaluate_player(player_name, test_data) ==
    LET found == get_player_in(players, player_name) IN
    /\ IF NotFound(found) THEN
          /\ last' = PlayerNotFound("evaluate_player", player_name, NoPath)
          /\ UNCHANGED players
       ELSE
          LET r == EvaluateLoop(found[1], test_data, 1, 0)
              q == EvaluateResult(r.total_reward, Len(test_data))
          IN
          /\ players' = [players EXCEPT ![player_name] = r.player]
          /\ last' = IF r.exc # "None"
                     THEN Raised("evaluate_player", player_name, NoPath, r.exc, "")
                     ELSE IF q.exc # "None"
                     THEN Raised("evaluate_player", player_name, NoPath, q.exc, "")
                     ELSE Returned("evaluate_player", player_name, NoPath, q.ret)
    /\ UNCHANGED <<training_data, modelFiles, dataFiles>>

\* an Action value
Action(action_type) == [action_type |-> action_type, parameters |-> <<>>]

\* the entries (state, action, reward) of labeled test sets
TestEntries ==
    {[state |-> s, action |-> Action(a), reward |-> r] :
        s \in States, a \in {ACTION_MOVE_LEFT, ACTION_CAST_SPELL}, r \in Rewards}

\* test sets of at most n entries
TestSets(n) == UNION {[1..k -> TestEntries] : k \in 0..n}

Next ==
    \/ \E t \in PlayerTypes, d \in Difficulties, n \in Names : create_player(t, d, n)
    \/ \E n \in Names : get_player(n)
    \/ \E n \in Names : remove_player(n)
    \/ \E n \in Names, s \in States : get_action(n, s)
    \/ \E n \in Names, s \in States, a \in {ACTION_MOVE_LEFT, ACTION_CAST_SPELL}, r \in Rewards, s2 \in States :
          update(n, s, Action(a), r, s2)
    \/ \E n \in Names, p \in ModelPathArgs : save_player(n, p)
    \/ \E n \in Names, p \in ModelPathArgs : load_player(n, p)
    \/ \E p \in DataPaths : load_training_data(p)
    \/ \E n \in Names, e \in 0..MaxEpochs, b \in 1..MaxBatch : train_player(n, e, b)
    \/ \E n \in Names, td \in TestSets(MaxTest) : evaluate_player(n, td)

Spec == Init /\ [][Next]_vars

\* the difficulty tiers 1..4 and a value on either side of them
TierDifficulties == 0..5

\* the variants whose construction reads the difficulty
TierTypes == {"heuristic", "neural_net"}

\* the registry used over every difficulty tier: agents are created, asked
\* to act, updated, trained and evaluated
NextTiers ==
    \/ \E t \in TierTypes, d \in TierDifficulties, n \in Names : create_player(t, d, n)
    \/ \E n \in Names, s \in States : get_action(n, s)
    \/ \E n \in Names, s \in States, r \in Rewards, s2 \in States :
          update(n, s, Action(ACTION_MOVE_LEFT), r, s2)
    \/ load_training_data(SeedDataPath)
    \/ \E n \in Names, e \in 0..MaxEpochs, b \in 1..MaxBatch : train_player(n, e, b)
    \/ \E n \in Names, td \in TestSets(MaxTest) : evaluate_player(n, td)

SpecTiers == Init /\ [][NextTiers]_vars

----------------------------------------------------------------------------
(* Properties *)

IsLearning(player) ==
    player.cls \in {"NeuralNetAIPlayer", "ReinforcementLearningAIPlayer"}

\* C1: get_action and update on a name that is not registered fail with the
\* not-found error (ValueError "Player not found") and leave the registered
\* agents and the training data as they were.
C1_UnregisteredNameFails ==
    [][(last'.op \in {"get_action", "update"} /\ last'.name \notin DOMAIN players)
        => /\ last'.exc = "ValueError"
           /\ last'.msg = "Player not found"
           /\ players' = players
           /\ training_data' = training_data]_vars

\* an update on an unregistered name has failed while another agent is registered
C1_Witness ==
    /\ last.op = "update"
    /\ last.name \notin DOMAIN players
    /\ last.exc = "ValueError"
    /\ DOMAIN players # {}

\* C2: create_player with a kind that is none of "heuristic", "neural_net", "rl"
\* fails with the invalid-kind error (ValueError "Unknown player type") and the
\* registry map is the one before the call, whatever the difficulty and name.
C2_UnknownKindRegistersNothing ==
    [][\A t \in PlayerTypes \ {"heuristic", "neural_net", "rl"},
          d \in Difficulties, n \in Names :
          create_player(t, d, n)
            => /\ last'.exc = "ValueError"
               /\ last'.msg = "Unknown player type"
               /\ players' = players]_vars

\* a create_player call has failed on its kind while an agent is registered
C2_Witness ==
    /\ last.op = "create_player"
    /\ last.exc = "ValueError"
    /\ last.msg = "Unknown player type"
    /\ DOMAIN players # {}

\* C3: train_player on a registered Heuristic agent fails as unsupported
\* (ValueError "does not support training"), and on a registered NeuralNet or
\* ReinforcementLearning agent with empty training data fails as invalid state
\* (ValueError "No training data available"); neither changes any agent (model
\* parameters, exploration rate) or registry entry.
C3_TrainPreconditions ==
    [][(last'.op = "train_player" /\ last'.name \in DOMAIN players)
        => LET player == players[last'.name] IN
           /\ player.cls = "HeuristicAIPlayer"
                => /\ last'.exc = "ValueError"
                   /\ last'.msg = "does not support training"
                   /\ players' = players
           /\ (IsLearning(player) /\ training_data = <<>>)
                => /\ last'.exc = "ValueError"
                   /\ last'.msg = "No training data available"
                   /\ players' = players]_vars

\* training a registered learning agent has failed for want of training data
\* while a Heuristic agent is registered too
C3_Witness ==
    /\ last.op = "train_player"
    /\ last.msg = "No training data available"
    /\ last.name \in DOMAIN players
    /\ IsLearning(players[last.name])
    /\ training_data = <<>>
    /\ \E n \in DOMAIN players : players[n].cls = "HeuristicAIPlayer"

\* C4: evaluate_player(name, []) on a registered agent of any variant returns
\* exactly 0.0, raises nothing and changes no agent or registry state.
C4_EmptyTestSetScoresZero ==
    [][\A n \in Names :
          (n \in DOMAIN players /\ evaluate_player(n, <<>>))
            => /\ last'.exc = "None"
               /\ last'.ret = <<[num |-> 0, den |-> 1]>>
               /\ players' = players
               /\ training_data' = training_data]_vars

\* an evaluation has returned a score
C4_Witness ==
    /\ last.op = "evaluate_player"
    /\ last.name \in DOMAIN players
    /\ last.exc = "None"
    /\ last.ret = <<[num |-> 0, den |-> 1]>>

\* the rewards of the entries whose labeled action-type the agent decides
RECURSIVE MatchingRewards(_, _, _)
MatchingRewards(player, test_data, i) ==
    IF i > Len(test_data) THEN 0
    ELSE LET r == AIPlayer_get_action(player, test_data[i].state) IN
         (IF r.exc = "None" /\ r.val # None
             /\ r.val[1].action_type = test_data[i].action.action_type
          THEN test_data[i].reward ELSE 0)
         + MatchingRewards(player, test_data, i + 1)

\* C5: evaluate_player on a registered agent and a non-empty test set returns
\* the sum of the rewards of the entries whose labeled action-type equals the
\* agent's decided action-type, divided by the number of entries.
C5_EvaluateAveragesMatchingRewards ==
    [][\A n \in Names, td \in TestSets(MaxTest) \ {<<>>} :
          (n \in DOMAIN players /\ evaluate_player(n, td))
            => /\ last'.exc = "None"
               /\ last'.ret # None
               /\ last'.ret[1].num * Len(td)
                    = MatchingRewards(players[n], td, 1) * last'.ret[1].den]_vars

\* C6: get_action on a registered agent of any variant returns an Action whose
\* action_type is one of the seven enumerated codes.
C6_GetActionReturnsEnumeratedCode ==
    (last.op = "get_action" /\ last.name \in DOMAIN players)
        => /\ last.exc = "None"
           /\ last.ret # None
           /\ last.ret[1].action_type \in ActionCodes

\* the memory after a transition is inserted: the oldest entry leaves first
\* once capacity entries are held
InsertBounded(memory, transition, capacity) ==
    IF Len(memory) < capacity THEN Append(memory, transition)
    ELSE Append(Tail(memory), transition)

\* C7: update on a registered learning agent inserts its transition into the
\* agent's replay memory, which holds at most MEMORY_CAPACITY transitions and
\* drops the first-inserted one, keeping insertion order, once it is full.
C7_ReplayMemoryBoundedFifo ==
    [][\A n \in Names, s \in States, a \in ActionCodes, r \in Rewards, s2 \in States :
          (n \in DOMAIN players /\ IsLearning(players[n])
           /\ update(n, s, Action(a), r, s2))
            => /\ n \in DOMAIN players'
               /\ players'[n].memory
                    = InsertBounded(players[n].memory, <<s, Action(a), r, s2>>,
                                    MEMORY_CAPACITY)
               /\ Len(players'[n].memory) <= MEMORY_CAPACITY]_vars

\* C8: on every get_action or update step of a registered NeuralNet or
\* ReinforcementLearning agent the exploration rate does not increase, is not
\* below EPSILON_END, and either strictly decreases or was already at the floor.
C8_ExplorationRateDecays ==
    [][(last'.op \in {"get_action", "update"} /\ last'.name \in DOMAIN players
        /\ IsLearning(players[last'.name]))
        => LET before == players[last'.name].epsilon
               after == players'[last'.name].epsilon
           IN /\ after <= before
              /\ after >= EPSILON_END
              /\ (after < before \/ before = EPSILON_END)]_vars

\* what save and load must carry over: variant, difficulty, policy parameters
\* and exploration rate
SameDecisions(p, q) ==
    /\ p.cls = q.cls
    /\ p.difficulty = q.difficulty
    /\ p.cls = "HeuristicAIPlayer" => p.decision_weights = q.decision_weights
    /\ IsLearning(p) => (p.model = q.model /\ p.epsilon = q.epsilon)
    /\ p.cls = "ReinforcementLearningAIPlayer"
         => (p.target_model = q.target_model /\ p.epsilon_decay = q.epsilon_decay)

\* C9: save_player(name) followed by load_player(name), both with the path left
\* out, on a registered agent: both complete, and the agent registered under
\* the name afterwards has the variant, difficulty, policy parameters and
\* exploration rate of the one saved.
C9_SaveLoadRoundTrip ==
    [][\A n \in Names :
          (/\ last.op = "save_player" /\ last.name = n /\ last.path = NoPath
           /\ n \in DOMAIN players
           /\ load_player(n, NoPath))
            => /\ last.exc = "None"
               /\ last'.exc = "None"
               /\ n \in DOMAIN players'
               /\ SameDecisions(players'[n], players[n])]_vars

\* C10: an agent instance registered under a name is still the one registered
\* under it after every call, except a remove_player call on that name.
C10_OnlyRemoveUnregisters ==
    [][\A n \in DOMAIN players :
          \/ (n \in DOMAIN players' /\ players'[n].id = players[n].id)
          \/ (last'.op = "remove_player" /\ last'.name = n)]_vars

\* the four failure conditions, each known by the message of its raise
FailureConditions ==
    {"Player not found", "Unknown player type", "does not support training",
     "No training data available"}

\* C11: not-found, invalid-kind, unsupported-operation and invalid-state reach
\* the caller as pairwise distinct error kinds: two calls that fail on
\* different ones of these conditions raise different exception classes.
C11_ErrorKindsPairwiseDistinct ==
    [][(/\ last.msg \in FailureConditions
        /\ last'.msg \in FailureConditions
        /\ last.msg # last'.msg)
        => /\ last.exc # "None"
           /\ last'.exc # "None"
           /\ last.exc # last'.exc]_vars

\* the weight of each feature, in tenths, for the tiers 1..4 in this order:
\* holes, bumpiness, height, lines_cleared, tower_stability, risk_taking
TierWeights ==
    << <<3, 2, 3, 8, 4, 2>>,
       <<5, 4, 5, 10, 6, 4>>,
       <<7, 6, 7, 12, 8, 6>>,
       <<9, 8, 9, 15, 10, 8>> >>

WeightVector(w) ==
    <<w.holes, w.bumpiness, w.height, w.lines_cleared, w.tower_stability,
      w.risk_taking>>

Heuristics(ps) == {n \in DOMAIN ps : ps[n].cls = "HeuristicAIPlayer"}

\* C12: a Heuristic agent of tier 1..4 has the weight vector of that tier's
\* table entry, two Heuristic agents of the same difficulty have equal weight
\* vectors, and no get_action, update, train_player or evaluate_player call
\* changes the weights of a registered Heuristic agent.
C12_HeuristicWeightsFixed ==
    [][/\ \A n \in Heuristics(players') :
             /\ players'[n].difficulty \in 1..4
                  => WeightVector(players'[n].decision_weights)
                       = TierWeights[players'[n].difficulty]
             /\ \A m \in Heuristics(players') :
                  players'[m].difficulty = players'[n].difficulty
                    => players'[m].decision_weights = players'[n].decision_weights
       /\ \A n \in Heuristics(players) :
             last'.op \in {"get_action", "update", "train_player", "evaluate_player"}
               => /\ n \in Heuristics(players')
                  /\ players'[n].decision_weights = players[n].decision_weights]_vars

\* two Heuristic agents of tier 3 are registered and one of them has been
\* asked to train
C12_Witness ==
    /\ last.op = "train_player"
    /\ last.name \in Heuristics(players)
    /\ \A n \in Names : n \in Heuristics(players) /\ players[n].difficulty = 3

\* C13: the ReinforcementLearning agent that create_player("rl", ...) has just
\* constructed holds the same parameter values in its online estimator and in
\* its target estimator.
C13_TargetStartsEqualToOnline ==
    (/\ last.op = "create_player"
     /\ last.exc = "None"
     /\ last.ret[1].cls = "ReinforcementLearningAIPlayer")
        => last.ret[1].target_model = last.ret[1].model

\* C14: a train_player call that completes changes only the online model
\* parameters of the named agent: its other attributes (exploration rate and
\* decay factor, target estimator, memory, step counter), the training data
\* and every other registered agent are as before the call.
C14_TrainChangesOnlyOnlineModel ==
    [][(last'.op = "train_player" /\ last'.exc = "None")
        => /\ training_data' = training_data
           /\ DOMAIN players' = DOMAIN players
           /\ \A m \in DOMAIN players \ {last'.name} : players'[m] = players[m]
           /\ players'[last'.name]
                = [players[last'.name] EXCEPT !.model = players'[last'.name].model]]_vars

\* a training call on a ReinforcementLearning agent has completed, gradient
\* steps have been applied to its online model, and another agent is registered
C14_Witness ==
    /\ last.op = "train_player"
    /\ last.exc = "None"
    /\ players[last.name].cls = "ReinforcementLearningAIPlayer"
    /\ players[last.name].model.steps > 0
    /\ DOMAIN players # {last.name}

\* C15: update on a registered NeuralNet agent completes without error,
\* appends exactly the transition (state, action, reward, next_state) to that
\* agent's memory and changes neither its model parameters nor its
\* exploration rate.
C15_NeuralNetUpdateRecordsTransition ==
    [][\A n \in Names, s \in States, a \in ActionCodes, r \in Rewards, s2 \in States :
          (/\ n \in DOMAIN players
           /\ players[n].cls = "NeuralNetAIPlayer"
           /\ update(n, s, Action(a), r, s2))
            => /\ last'.exc = "None"
               /\ n \in DOMAIN players'
               /\ players'[n].memory
                    = Append(players[n].memory, <<s, Action(a), r, s2>>)
               /\ players'[n].model = players[n].model
               /\ players'[n].epsilon = players[n].epsilon]_vars

\* C16: update on a registered Heuristic agent returns without raising and
\* leaves the agent (weights, difficulty), the registry map and the training
\* data unchanged.
C16_HeuristicUpdateIsNoOp ==
    [][(/\ last'.op = "update"
        /\ last'.name \in DOMAIN players
        /\ players[last'.name].cls = "HeuristicAIPlayer")
        => /\ last'.exc = "None"
           /\ players' = players
           /\ training_data' = training_data]_vars

Variants == {"HeuristicAIPlayer", "NeuralNetAIPlayer", "ReinforcementLearningAIPlayer"}

\* the file load_player reads for a name and a path argument
LoadedPath(name, path) == IF path = NoPath THEN DefaultModelPath(name) ELSE path

\* C17: whatever variant V the agent saved in an existing file had, a
\* load_player call whose variant being loaded into (the class it constructs)
\* is not V fails with an error and leaves the registry unchanged, for every
\* name and path.
C17_LoadRejectsOtherVariant ==
    [][\A V \in Variants :
          (/\ last'.op = "load_player"
           /\ LoadedPath(last'.name, last'.path) \in modelFiles
           /\ PlayerClassFromPath(LoadedPath(last'.name, last'.path)) # V)
            => /\ last'.exc # "None"
               /\ players' = players]_vars

\* load_player has constructed an agent of the variant its path names and
\* failed in loading it, while the agent registered under the name (the one a
\* save under that name would have written) is of another variant
C17_Witness ==
    /\ last.op = "load_player"
    /\ last.exc = "NotImplementedError"
    /\ LoadedPath(last.name, last.path) \in modelFiles
    /\ last.name \in DOMAIN players
    /\ players[last.name].cls \in Variants
    /\ players[last.name].cls # PlayerClassFromPath(LoadedPath(last.name, last.path))

\* the exploration rate, in thousandths, of the tiers 1..4
TierEpsilon == <<500, 300, 100, 50>>

NeuralNets(ps) == {n \in DOMAIN ps : ps[n].cls = "NeuralNetAIPlayer"}

\* the rate of every registered NeuralNet agent of tier 1..4 is that of its
\* tier, at all times
EpsilonIsTierEpsilon ==
    \A n \in NeuralNets(players) :
        players[n].difficulty \in 1..4
          => players[n].epsilon = TierEpsilon[players[n].difficulty]

\* C18 as stated: a NeuralNet agent's exploration rate is the one its
\* difficulty fixes (0.5, 0.3, 0.1, 0.05 over the tiers 1..4, strictly lower for
\* a strictly higher tier), and no difficulty value at all yields a rate lower
\* than that of a higher difficulty value.
C18_NoDifficultyBelowAHigherOne ==
    /\ EpsilonIsTierEpsilon
    /\ \A n \in NeuralNets(players), m \in NeuralNets(players) :
          players[n].difficulty < players[m].difficulty
            => players[n].epsilon >= players[m].epsilon

\* C18 amended: a NeuralNet agent's exploration rate is the one its difficulty
\* fixes (0.5, 0.3, 0.1, 0.05 over the tiers 1..4, strictly lower for a strictly
\* higher tier), and no difficulty value of 1 or more yields a rate lower than
\* that of a higher difficulty value.
C18_NoTierBelowAHigherOne ==
    /\ EpsilonIsTierEpsilon
    /\ \A n \in NeuralNets(players), m \in NeuralNets(players) :
          /\ (1 <= players[n].difficulty
              /\ players[n].difficulty < players[m].difficulty)
                => players[n].epsilon >= players[m].epsilon
          /\ (1 <= players[n].difficulty
              /\ players[n].difficulty < players[m].difficulty
              /\ players[m].difficulty <= 4)
                => players[n].epsilon > players[m].epsilon

\* NeuralNet agents of the tiers 2 and 3 are registered and one of them has
\* been asked to act
C18_Witness ==
    /\ last.op = "get_action"
    /\ DOMAIN players = Names
    /\ \A n \in Names : n \in NeuralNets(players)
    /\ {players[n].difficulty : n \in Names} = {2, 3}

\* the sizes of the mini-batches of one epoch over n samples
BatchSizes(n, batch_size) ==
    [k \in 1..NumBatches(n, batch_size) |-> BatchSize(n, batch_size, k)]

RECURSIVE SumSeq(_)
SumSeq(s) == IF s = <<>> THEN 0 ELSE Head(s) + SumSeq(Tail(s))

\* C19: train_player on a registered learning agent with N > 0 accumulated
\* transitions, batch size b >= 1 and e >= 0 epochs returns after e epochs; the
\* mini-batches of an epoch hold every transition once and at most b each, and
\* e * ceil(N / b) gradient steps are applied to the online model.
C19_TrainRunsEveryEpoch ==
    [][\A n \in Names, e \in 0..MaxEpochs, b \in 1..MaxBatch :
          (/\ n \in DOMAIN players
           /\ IsLearning(players[n])
           /\ training_data # <<>>
           /\ train_player(n, e, b))
            => LET N == Len(training_data) IN
               /\ last'.exc = "None"
               /\ SumSeq(BatchSizes(N, b)) = N
               /\ \A k \in 1..NumBatches(N, b) : BatchSizes(N, b)[k] \in 1..b
               /\ NumBatches(N, b) * b >= N
               /\ (NumBatches(N, b) - 1) * b < N
               /\ players'[n].model.steps = players[n].model.steps + e * NumBatches(N, b)]_vars

\* C20: whatever create_player, load_player and remove_player calls were made,
\* every key of the registry is the name attribute of the agent stored under
\* it, the None key of an agent created without a name included.
C20_KeyIsAgentName ==
    \A n \in DOMAIN players : players[n].name = n

\* an agent was just created with the name left out, next to a named one
C20_Witness ==
    /\ last.op = "create_player"
    /\ last.exc = "None"
    /\ last.name = NoneName
    /\ DOMAIN players = {NoneName, Str_rl}

\* C21: remove_player(name) returns without an error, takes the entry of name
\* out of the registry and touches nothing else (the other agents, the training
\* data and the files stay; on an unregistered name nothing changes at all).
\* As long as a name is not registered, get_player on it returns None and
\* get_action on it fails with the not-found error, and only a create_player or
\* load_player call on that name can register it again.
C21_RemoveTakesOutOneEntry ==
    [][/\ last'.op = "remove_player"
            => /\ last'.exc = "None"
               /\ DOMAIN players' = (DOMAIN players) \ {last'.name}
               /\ \A m \in DOMAIN players' : players'[m] = players[m]
               /\ last'.name \notin DOMAIN players => players' = players
               /\ training_data' = training_data
               /\ modelFiles' = modelFiles
               /\ dataFiles' = dataFiles
       /\ \A n \in Names \ DOMAIN players :
            /\ (last'.op = "get_player" /\ last'.name = n)
                 => (last'.exc = "None" /\ last'.ret = None)
            /\ (last'.op = "get_action" /\ last'.name = n)
                 => last' = PlayerNotFound("get_action", n, NoPath)
            /\ n \in DOMAIN players'
                 => (last'.op \in {"create_player", "load_player"} /\ last'.name = n)]_vars

\* remove_player has returned, its name is not registered and another agent
\* still is
C21_Witness ==
    /\ last.op = "remove_player"
    /\ last.exc = "None"
    /\ last.name \notin DOMAIN players
    /\ DOMAIN players # {}

====
